---- MODULE Spec2Model ----
(***************************************************************************)
(* hs-bindgen-types: the Haskell C-FFI type vocabulary (HsType), its       *)
(* textual rendering (Display), the parser (FromStr) with its arrow        *)
(* scanner (ArrowIter) and the projection to Rust FFI types (quote).       *)
(*                                                                         *)
(* A Rust &str is modelled as the sequence of its UTF-8 bytes.  An ASCII   *)
(* byte is written as the one-character string of its character; the two   *)
(* bytes of U+00E9 are written "xC3" (lead byte) and "xA9" (continuation   *)
(* byte).  Byte offsets are 0-based as in the source.                      *)
(***************************************************************************)
EXTENDS Integers, Sequences, FiniteSets, TLC

(***************************************************************************)
(* Bounds of the model.                                                    *)
(***************************************************************************)
\* largest number of nodes of an HsType value drawn as input of Display
MaxNodes == 5
\* largest number of fragments concatenated into an input text
MaxFrags == 3
\* largest number of nodes of a grammar derivation drawn as input text
MaxDerivNodes == 4
\* largest number of nodes of a rendered type that is perturbed by one token
MaxBaseNodes == 3

(***************************************************************************)
(* Byte strings.                                                           *)
(***************************************************************************)
\* UTF-8 continuation bytes: an offset pointing at one is no char boundary
ContinuationBytes == {"xA9"}

\* UTF-8 lead bytes of two-byte characters
LeadBytes == {"xC3"}

\* char::len_utf8 of the character whose first byte is b
len_utf8(b) == IF b \in LeadBytes THEN 2 ELSE 1

\* char::is_whitespace on the (single-byte) characters of the model
is_whitespace(b) == b \in {" ", "\t", "\n"}

\* str::is_char_boundary: offset 0, the length, or the first byte of a char
is_char_boundary(s, i) ==
    \/ i = 0
    \/ i = Len(s)
    \/ i < Len(s) /\ s[i + 1] \notin ContinuationBytes

\* &s[from..to], offsets 0-based, to exclusive
Slice(s, from, to) == SubSeq(s, from + 1, to)

\* &s[from..]
SliceFrom(s, from) == SubSeq(s, from + 1, Len(s))

\* str::starts_with
starts_with(s, p) == Len(s) >= Len(p) /\ SubSeq(s, 1, Len(p)) = p

RECURSIVE trim_start(_)
\* str::trim_start
trim_start(s) ==
    IF s # <<>> /\ is_whitespace(s[1]) THEN trim_start(Tail(s)) ELSE s

RECURSIVE trim_end(_)
\* str::trim_end
trim_end(s) ==
    IF s # <<>> /\ is_whitespace(s[Len(s)])
    THEN trim_end(SubSeq(s, 1, Len(s) - 1))
    ELSE s

\* str::trim
trim(s) == trim_end(trim_start(s))

\* Option<&str> returned by strip_suffix and by ArrowIter::next
NoneStr == [some |-> FALSE, val |-> <<>>]

SomeStr(s) == [some |-> TRUE, val |-> s]

\* a plausible slip: drop the last byte without looking at it
strip_suffix_any(s) ==
    IF s # <<>> THEN SomeStr(SubSeq(s, 1, Len(s) - 1)) ELSE NoneStr

\* str::strip_suffix(')')
strip_suffix(s) ==
    IF s # <<>> /\ s[Len(s)] = ")"
    THEN SomeStr(SubSeq(s, 1, Len(s) - 1))
    ELSE NoneStr

(***************************************************************************)
(* HsType.  A value is a record [tag, args]: args is empty for the          *)
(* primitives, holds the boxed type for Ptr and IO, and the Vec for FunPtr. *)
(***************************************************************************)
PrimitiveTags ==
    {"CBool", "CChar", "CDouble", "CFloat", "CInt", "CLLong", "CLong",
     "CSChar", "CShort", "CString", "CUChar", "CUInt", "CULLong", "CULong",
     "CUShort"}

Prim(tag) == [tag |-> tag, args |-> <<>>]

Empty == [tag |-> "Empty", args |-> <<>>]

Ptr(x) == [tag |-> "Ptr", args |-> <<x>>]

IO(x) == [tag |-> "IO", args |-> <<x>>]

FunPtr(types) == [tag |-> "FunPtr", args |-> types]

\* placeholder of a variable that holds no HsType
NoType == [tag |-> "None", args |-> <<>>]

\* the spelling of each primitive, as bytes
PrimitiveName(tag) ==
    CASE tag = "CBool" -> <<"C", "B", "o", "o", "l">>
      [] tag = "CChar" -> <<"C", "C", "h", "a", "r">>
      [] tag = "CDouble" -> <<"C", "D", "o", "u", "b", "l", "e">>
      [] tag = "CFloat" -> <<"C", "F", "l", "o", "a", "t">>
      [] tag = "CInt" -> <<"C", "I", "n", "t">>
      [] tag = "CLLong" -> <<"C", "L", "L", "o", "n", "g">>
      [] tag = "CLong" -> <<"C", "L", "o", "n", "g">>
      [] tag = "CSChar" -> <<"C", "S", "C", "h", "a", "r">>
      [] tag = "CShort" -> <<"C", "S", "h", "o", "r", "t">>
      [] tag = "CString" -> <<"C", "S", "t", "r", "i", "n", "g">>
      [] tag = "CUChar" -> <<"C", "U", "C", "h", "a", "r">>
      [] tag = "CUInt" -> <<"C", "U", "I", "n", "t">>
      [] tag = "CULLong" -> <<"C", "U", "L", "L", "o", "n", "g">>
      [] tag = "CULong" -> <<"C", "U", "L", "o", "n", "g">>
      [] tag = "CUShort" -> <<"C", "U", "S", "h", "o", "r", "t">>

\* byte strings of the structural tokens
LParen == <<"(">>

RParen == <<")">>

Arrow == <<"-", ">">>

UnitText == <<"(", ")">>

IOText == <<"I", "O">>

PtrText == <<"P", "t", "r">>

FunPtrText == <<"F", "u", "n", "P", "t", "r">>

(***************************************************************************)
(* impl Display for HsType                                                 *)
(***************************************************************************)
RECURSIVE join(_, _)
\* [String]::join(sep)
join(strs, sep) ==
    IF strs = <<>> THEN <<>>
    ELSE IF Len(strs) = 1 THEN strs[1]
    ELSE strs[1] \o sep \o join(Tail(strs), sep)

\* a plausible slip: the argument list written without its parentheses
fmt_fun_ptr_bare(args) == FunPtrText \o <<" ">> \o join(args, <<" ">> \o Arrow \o <<" ">>)

\* format!("FunPtr({})", args.join(" -> "))
fmt_fun_ptr(args) ==
    FunPtrText \o LParen \o join(args, <<" ">> \o Arrow \o <<" ">>) \o RParen

RECURSIVE fmt(_)
fmt(t) ==
    CASE t.tag \in PrimitiveTags -> PrimitiveName(t.tag)
      [] t.tag = "Empty" -> UnitText
      [] t.tag = "Ptr" -> PtrText \o <<" ">> \o LParen \o fmt(t.args[1]) \o RParen
      [] t.tag = "IO" -> IOText \o <<" ">> \o LParen \o fmt(t.args[1]) \o RParen
      [] t.tag = "FunPtr" ->
           fmt_fun_ptr([i \in 1..Len(t.args) |-> fmt(t.args[i])])

(***************************************************************************)
(* Error and Result<HsType, Error>.  kind "panic" is the process abort of   *)
(* a slice taken at an offset that is no char boundary.                    *)
(***************************************************************************)
ErrorNames == {"UnsupportedHsType", "UnmatchedParenthesis", "FunPtrWithoutTypeArgument"}

Ok(t) == [kind |-> "ok", val |-> t, err |-> "", text |-> <<>>]

Err(name, txt) == [kind |-> "err", val |-> NoType, err |-> name, text |-> txt]

Panic == [kind |-> "panic", val |-> NoType, err |-> "", text |-> <<>>]

\* placeholder of a variable that holds no result yet
NoResult == [kind |-> "none", val |-> NoType, err |-> "", text |-> <<>>]

(***************************************************************************)
(* ArrowIter                                                               *)
(***************************************************************************)
\* what next() hands back: the Option<&str> and the iterator's remaining text
Yield(opt, rem) == [some |-> opt.some, val |-> opt.val, remaining |-> rem]

\* a plausible slip: the arrow is a split point at any depth
is_split_any_depth(open, rest) == starts_with(rest, Arrow)

\* open == 0 && remaining[offset..].starts_with("->")
is_split(open, rest) == open = 0 /\ starts_with(rest, Arrow)

RECURSIVE scan(_, _, _, _)
\* the for loop of next(): the state after it, [matched, offset]
scan(remaining, offset, open, matched) ==
    IF offset >= Len(remaining) THEN [matched |-> matched, offset |-> offset]
    ELSE LET c == remaining[offset + 1] IN
         IF c = "(" THEN
              scan(remaining, offset + 1, open + 1, Slice(remaining, 0, offset + 1))
         ELSE IF c = ")" THEN
              scan(remaining, offset + 1, open - 1, Slice(remaining, 0, offset + 1))
         ELSE IF is_split(open, SliceFrom(remaining, offset)) THEN
              [matched |-> Slice(remaining, 0, offset), offset |-> offset + Len(Arrow)]
         ELSE scan(remaining, offset + len_utf8(c), open,
                   Slice(remaining, 0, offset + len_utf8(c)))

\* a plausible slip: the blank rest is consumed when the iterator stops
stop_consuming(remaining) == Yield(NoneStr, <<>>)

\* if remaining.trim().is_empty() { return None; }
stop(remaining) == Yield(NoneStr, remaining)

\* ArrowIter::next
next(remaining) ==
    IF trim(remaining) = <<>> THEN stop(remaining)
    ELSE LET st == scan(remaining, 0, 0, <<>>) IN
         Yield(SomeStr(st.matched), SliceFrom(remaining, st.offset))

(***************************************************************************)
(* impl FromStr for HsType                                                 *)
(***************************************************************************)
\* a plausible slip: the interior's error is replaced, not propagated
paren_group_remap(r) ==
    IF r.kind = "err" THEN Err("UnmatchedParenthesis", <<>>) ELSE r

\* Ok(interior.parse()?)
paren_group(r) == IF r.kind = "ok" THEN Ok(r.val) ELSE r

\* Ok(HsType::IO(Box::new(rest.parse()?))), and the same for Ptr
wrap(tag, r) ==
    IF r.kind = "ok" THEN Ok([tag |-> tag, args |-> <<r.val>>]) ELSE r

\* a plausible slip: the emptiness check is left out
check_types_unchecked(types) == Ok(FunPtr(types))

\* if types.is_empty() { return Err(FunPtrWithoutTypeArgument) } Ok(FunPtr(types))
check_types(types) ==
    IF types = <<>> THEN Err("FunPtrWithoutTypeArgument", <<>>)
    ELSE Ok(FunPtr(types))

\* a plausible slip: the error carries the first byte only
match_primitive_truncated(s) ==
    IF \E tag \in PrimitiveTags : PrimitiveName(tag) = s
    THEN Ok(Prim(CHOOSE tag \in PrimitiveTags : PrimitiveName(tag) = s))
    ELSE Err("UnsupportedHsType", IF s = <<>> THEN s ELSE <<s[1]>>)

\* a plausible slip: the arm of "CChar" builds the neighbouring variant
match_primitive_cchar(s) ==
    IF s = PrimitiveName("CChar") THEN Ok(Prim("CString"))
    ELSE IF \E tag \in PrimitiveTags : PrimitiveName(tag) = s
    THEN Ok(Prim(CHOOSE tag \in PrimitiveTags : PrimitiveName(tag) = s))
    ELSE Err("UnsupportedHsType", s)

\* match s { "CBool" => Ok(HsType::CBool), ..., ty => Err(UnsupportedHsType(ty)) }
match_primitive(s) ==
    IF \E tag \in PrimitiveTags : PrimitiveName(tag) = s
    THEN Ok(Prim(CHOOSE tag \in PrimitiveTags : PrimitiveName(tag) = s))
    ELSE Err("UnsupportedHsType", s)

RECURSIVE from_str(_)
RECURSIVE collect(_, _)
\* ArrowIter { remaining }.map(|s| s.parse()).collect::<Result<Vec<_>, _>>():
\* the slices are parsed in order and the first one that is not Ok ends it
collect(remaining, types) ==
    LET n == next(remaining) IN
    IF ~n.some THEN [kind |-> "ok", types |-> types, res |-> NoResult]
    ELSE LET r == from_str(n.val) IN
         IF r.kind = "ok" THEN collect(n.remaining, Append(types, r.val))
         ELSE [kind |-> r.kind, types |-> <<>>, res |-> r]

\* the FunPtr arm, s being the trimmed text after "FunPtr"
fun_ptr_args(s) ==
    LET stripped ==
            IF s # <<>> /\ s[1] = "(" THEN strip_suffix(SliceFrom(s, 1))
            ELSE SomeStr(s)
    IN  IF ~stripped.some THEN Err("UnmatchedParenthesis", <<>>)
        ELSE LET c == collect(stripped.val, <<>>) IN
             IF c.kind # "ok" THEN c.res ELSE check_types(c.types)

from_str(str) ==
    LET s == trim(str) IN
    IF s = UnitText THEN Ok(Empty)
    ELSE IF s # <<>> /\ ~is_char_boundary(s, 1) THEN Panic
    ELSE IF s # <<>> /\ Slice(s, 0, 1) = LParen THEN
         LET interior == strip_suffix(SliceFrom(s, 1)) IN
         IF ~interior.some THEN Err("UnmatchedParenthesis", <<>>)
         ELSE paren_group(from_str(interior.val))
    ELSE IF Len(s) >= 2 /\ ~is_char_boundary(s, 2) THEN Panic
    ELSE IF Len(s) >= 2 /\ Slice(s, 0, 2) = IOText THEN
         wrap("IO", from_str(SliceFrom(s, 2)))
    ELSE IF Len(s) >= 3 /\ ~is_char_boundary(s, 3) THEN Panic
    ELSE IF Len(s) >= 3 /\ Slice(s, 0, 3) = PtrText THEN
         wrap("Ptr", from_str(SliceFrom(s, 3)))
    ELSE IF Len(s) >= 6 /\ ~is_char_boundary(s, 6) THEN Panic
    ELSE IF Len(s) >= 6 /\ Slice(s, 0, 6) = FunPtrText THEN
         fun_ptr_args(trim(SliceFrom(s, 6)))
    ELSE match_primitive(s)

(***************************************************************************)
(* HsType::quote: the Rust type, as its token sequence.  QuotePanic is the *)
(* abort of types.last().unwrap() on an empty Vec.                         *)
(***************************************************************************)
QuotePanic == <<"panic">>

\* the path core::ffi::<name> of each primitive
quote_primitive(tag) ==
    CASE tag = "CBool" -> <<"bool">>
      [] tag = "CChar" -> <<"core::ffi::c_char">>
      [] tag = "CDouble" -> <<"core::ffi::c_double">>
      [] tag = "CFloat" -> <<"core::ffi::c_float">>
      [] tag = "CInt" -> <<"core::ffi::c_int">>
      [] tag = "CLLong" -> <<"core::ffi::c_longlong">>
      [] tag = "CLong" -> <<"core::ffi::c_long">>
      [] tag = "CSChar" -> <<"core::ffi::c_schar">>
      [] tag = "CShort" -> <<"core::ffi::c_short">>
      [] tag = "CUChar" -> <<"core::ffi::c_uchar">>
      [] tag = "CUInt" -> <<"core::ffi::c_uint">>
      [] tag = "CULLong" -> <<"core::ffi::c_ulonglong">>
      [] tag = "CULong" -> <<"core::ffi::c_ulong">>
      [] tag = "CUShort" -> <<"core::ffi::c_ushort">>

RECURSIVE quote(_)
quote(t) ==
    CASE t.tag = "CString" -> quote(Ptr(Prim("CChar")))
      [] t.tag \in PrimitiveTags \ {"CString"} -> quote_primitive(t.tag)
      [] t.tag = "Empty" -> <<"(", ")">>
      [] t.tag = "Ptr" ->
           LET ty == quote(t.args[1]) IN
           IF ty = QuotePanic THEN QuotePanic ELSE <<"*", "const">> \o ty
      [] t.tag = "IO" -> quote(t.args[1])
      [] t.tag = "FunPtr" ->
           IF t.args = <<>> THEN QuotePanic
           ELSE LET n == Len(t.args)
                    ret == quote(t.args[n])
                    args == [i \in 1..(n - 1) |-> quote(t.args[i])]
                IN  IF ret = QuotePanic \/ \E i \in 1..(n - 1) : args[i] = QuotePanic
                    THEN QuotePanic
                    ELSE <<"unsafe", "extern", "C", "fn", "(">>
                         \o join(args, <<",">>) \o <<")", "->">> \o ret

(***************************************************************************)
(* The inputs: HsType values handed to Display, and texts handed to        *)
(* from_str and to ArrowIter.                                              *)
(***************************************************************************)
Sp == <<" ">>

\* the two bytes of U+00E9
EAcute == <<"xC3", "xA9">>

Foo == <<"F", "o", "o">>

\* concatenation of a sequence of byte strings
Cat(strs) == join(strs, <<>>)

\* leaves of the larger generated types
GenLeaves == {Prim("CInt"), Empty}

\* leaves of the smaller generated types: also CString and the empty Vec
AllLeaves == GenLeaves \cup {Prim("CString"), FunPtr(<<>>)}

RECURSIVE TypesOfSize(_, _)
RECURSIVE ListsOfSize(_, _)
\* the HsType values of exactly n nodes over the given leaves
TypesOfSize(n, leaves) ==
    IF n <= 1 THEN leaves
    ELSE LET inner == TypesOfSize(n - 1, leaves) IN
         {Ptr(x) : x \in inner} \cup {IO(x) : x \in inner}
         \cup {FunPtr(l) : l \in ListsOfSize(n - 1, leaves)}

\* the non-empty sequences of values whose node counts add up to m
ListsOfSize(m, leaves) ==
    UNION {LET heads == TypesOfSize(k, leaves) IN
           IF k = m THEN {<<x>> : x \in heads}
           ELSE {<<x>> \o l : x \in heads, l \in ListsOfSize(m - k, leaves)}
           : k \in 1..m}

TypeValues ==
    {Prim(tag) : tag \in PrimitiveTags}
    \cup UNION {TypesOfSize(n, GenLeaves) : n \in 1..MaxNodes}
    \cup UNION {TypesOfSize(n, AllLeaves) : n \in 1..MaxBaseNodes}

(***************************************************************************)
(* Derivations of the grammar                                              *)
(*   Type := "()" | "(" Type ")" | "IO" Type | "Ptr" Type                  *)
(*         | "FunPtr" FunPtrArgs | PrimitiveName                           *)
(*   FunPtrArgs := "(" ArrowList ")" | ArrowList                           *)
(*   ArrowList := Type ("->" Type)+                                        *)
(* as trees [tag, args]; tags Paren, FunPtrParen and FunPtrBare name the   *)
(* productions that HsType does not tell apart.                            *)
(***************************************************************************)
Deriv(tag, args) == [tag |-> tag, args |-> args]

RECURSIVE DerivsOfSize(_)
RECURSIVE DerivListsOfSize(_)
DerivsOfSize(n) ==
    IF n <= 1 THEN GenLeaves
    ELSE LET inner == DerivsOfSize(n - 1) IN
         {Deriv("Paren", <<x>>) : x \in inner}
         \cup {Deriv("IO", <<x>>) : x \in inner}
         \cup {Deriv("Ptr", <<x>>) : x \in inner}
         \cup {Deriv("FunPtrParen", l) : l \in {k \in DerivListsOfSize(n - 1) : Len(k) >= 2}}
         \cup {Deriv("FunPtrBare", l) : l \in {k \in DerivListsOfSize(n - 1) : Len(k) >= 2}}

DerivListsOfSize(m) ==
    UNION {LET heads == DerivsOfSize(k) IN
           IF k = m THEN {<<x>> : x \in heads}
           ELSE {<<x>> \o l : x \in heads, l \in DerivListsOfSize(m - k)}
           : k \in 1..m}

Derivations == UNION {DerivsOfSize(n) : n \in 1..MaxDerivNodes}

RECURSIVE Str(_)
\* the string a derivation derives, tokens separated by one space
Str(d) ==
    CASE d.tag \in PrimitiveTags -> PrimitiveName(d.tag)
      [] d.tag = "Empty" -> UnitText
      [] d.tag = "Paren" -> LParen \o Str(d.args[1]) \o RParen
      [] d.tag = "IO" -> IOText \o Sp \o Str(d.args[1])
      [] d.tag = "Ptr" -> PtrText \o Sp \o Str(d.args[1])
      [] d.tag = "FunPtrParen" ->
           FunPtrText \o Sp \o LParen
           \o join([i \in 1..Len(d.args) |-> Str(d.args[i])], Sp \o Arrow \o Sp)
           \o RParen
      [] d.tag = "FunPtrBare" ->
           FunPtrText \o Sp
           \o join([i \in 1..Len(d.args) |-> Str(d.args[i])], Sp \o Arrow \o Sp)

RECURSIVE Denote(_)
\* the HsType a derivation denotes
Denote(d) ==
    CASE d.tag \in PrimitiveTags -> Prim(d.tag)
      [] d.tag = "Empty" -> Empty
      [] d.tag = "Paren" -> Denote(d.args[1])
      [] d.tag = "IO" -> IO(Denote(d.args[1]))
      [] d.tag = "Ptr" -> Ptr(Denote(d.args[1]))
      [] d.tag \in {"FunPtrParen", "FunPtrBare"} ->
           FunPtr([i \in 1..Len(d.args) |-> Denote(d.args[i])])

(***************************************************************************)
(* Input texts.                                                            *)
(***************************************************************************)
Frags ==
    {LParen, RParen, Sp, Arrow, <<"-">>, IOText, PtrText, FunPtrText,
     PrimitiveName("CInt"), PrimitiveName("CString"), Foo, EAcute}

RECURSIVE FragTexts(_)
\* the concatenations of at most k fragments
FragTexts(k) ==
    IF k = 0 THEN {<<>>}
    ELSE LET shorter == FragTexts(k - 1) IN
         shorter \cup {f \o t : f \in Frags, t \in shorter}

\* the tokens put into, and the bytes taken out of, a rendered type
Junk == {LParen, RParen, Arrow, Sp, EAcute}

Insert(s, i, junk) == SubSeq(s, 1, i) \o junk \o SubSeq(s, i + 1, Len(s))

Delete(s, i) == SubSeq(s, 1, i - 1) \o SubSeq(s, i + 1, Len(s))

BaseTexts == {fmt(t) : t \in UNION {TypesOfSize(n, GenLeaves) : n \in 1..MaxBaseNodes}}

PerturbedTexts ==
    UNION {{Insert(s, i, j) : i \in 0..Len(s), j \in Junk}
           \cup {Delete(s, i) : i \in 1..Len(s)} : s \in BaseTexts}

\* "FunPtr (FunPtr(CInt -> CInt) -> CDouble)"
NestedArrowText ==
    Cat(<<FunPtrText, Sp, LParen, FunPtrText, LParen, PrimitiveName("CInt"), Sp,
          Arrow, Sp, PrimitiveName("CInt"), RParen, Sp, Arrow, Sp,
          PrimitiveName("CDouble"), RParen>>)

\* "FunPtr (CInt) -> CInt"
BareParenFirstText ==
    Cat(<<FunPtrText, Sp, LParen, PrimitiveName("CInt"), RParen, Sp, Arrow, Sp,
          PrimitiveName("CInt")>>)

\* "FunPtr(CInt -> CInt) -> CDouble", the scanner's input for NestedArrowText
NestedArrowArgs ==
    Cat(<<FunPtrText, LParen, PrimitiveName("CInt"), Sp, Arrow, Sp,
          PrimitiveName("CInt"), RParen, Sp, Arrow, Sp, PrimitiveName("CDouble")>>)

ExampleTexts ==
    {NestedArrowText, NestedArrowArgs, BareParenFirstText,
     Cat(<<FunPtrText, Sp, Foo, Sp, Arrow, Sp, FunPtrText>>),
     Cat(<<FunPtrText, Sp, LParen, FunPtrText, Sp, Arrow, Sp, Foo, RParen>>),
     Cat(<<FunPtrText, Sp, UnitText>>),
     Cat(<<FunPtrText, Sp, LParen, PtrText, Sp, PrimitiveName("CInt"), Sp, Arrow,
           Sp, PrimitiveName("CDouble"), RParen>>),
     Cat(<<FunPtrText, Sp, LParen, PrimitiveName("CInt"), Sp, Arrow, Sp,
           PrimitiveName("CInt"), Sp, Arrow, Sp, PrimitiveName("CDouble"), RParen>>),
     Cat(<<PtrText, Sp, PrimitiveName("CChar")>>),
     Cat(<<Foo, Arrow, EAcute, Foo>>),
     Cat(<<FunPtrText, Sp, EAcute, Sp, Arrow, Sp, Foo>>),
     Cat(<<FunPtrText, Sp, Foo, Sp, Arrow, Sp, EAcute>>)}

Texts == FragTexts(MaxFrags) \cup PerturbedTexts \cup ExampleTexts

(***************************************************************************)
(* The state machine.                                                      *)
(***************************************************************************)
VARIABLES
    ty,         \* the HsType value handed to Display, or NoType
    deriv,      \* the grammar derivation the text was derived by, or NoType
    text,       \* the text handed to from_str and to ArrowIter
    result,     \* what from_str returned
    tokens,     \* what quote returned
    remaining,  \* ArrowIter.remaining
    item,       \* what the last call of next() returned
    yielded,    \* the slices next() has yielded so far, in order
    pc

vars == <<ty, deriv, text, result, tokens, remaining, item, yielded, pc>>

\* no call of next() yet
NotCalled == [called |-> FALSE, some |-> FALSE, val |-> <<>>]

Init ==
    /\ \/ /\ ty \in TypeValues
          /\ deriv = NoType
          /\ text = <<>>
          /\ pc = "type"
       \/ /\ ty = NoType
          /\ deriv \in Derivations
          /\ text = Str(deriv)
          /\ pc = "text"
       \/ /\ ty = NoType
          /\ deriv = NoType
          /\ text \in Texts
          /\ pc = "text"
    /\ result = NoResult
    /\ tokens = <<>>
    /\ remaining = <<>>
    /\ item = NotCalled
    /\ yielded = <<>>

\* format!("{t}")
Display ==
    /\ pc = "type"
    /\ text' = fmt(ty)
    /\ pc' = "text"
    /\ UNCHANGED <<ty, deriv, result, tokens, remaining, item, yielded>>

\* text.parse::<HsType>()
FromStr ==
    /\ pc = "text"
    /\ result' = from_str(text)
    /\ pc' = "parsed"
    /\ UNCHANGED <<ty, deriv, text, tokens, remaining, item, yielded>>

\* the parsed type's quote()
Quote ==
    /\ pc = "parsed"
    /\ result.kind = "ok"
    /\ tokens' = quote(result.val)
    /\ pc' = "quoted"
    /\ UNCHANGED <<ty, deriv, text, result, remaining, item, yielded>>

\* ArrowIter::from(text)
ArrowIterFrom ==
    /\ pc = "text"
    /\ remaining' = text
    /\ pc' = "iter"
    /\ UNCHANGED <<ty, deriv, text, result, tokens, item, yielded>>

\* one call of next() on the iterator
ArrowIterNext ==
    /\ pc = "iter"
    /\ LET n == next(remaining) IN
         /\ remaining' = n.remaining
         /\ item' = [called |-> TRUE, some |-> n.some, val |-> n.val]
         /\ yielded' = IF n.some THEN Append(yielded, n.val) ELSE yielded
    /\ UNCHANGED <<ty, deriv, text, result, tokens, pc>>

Next == Display \/ FromStr \/ Quote \/ ArrowIterFrom \/ ArrowIterNext

Spec == Init /\ [][Next]_vars

(***************************************************************************)
(* Vocabulary of the properties.                                           *)
(***************************************************************************)
\* from_str has returned
Parsed == pc \in {"parsed", "quoted"}

RECURSIVE HasCString(_)
\* t is or contains the CString variant
HasCString(t) ==
    \/ t.tag = "CString"
    \/ \E i \in 1..Len(t.args) : HasCString(t.args[i])

RECURSIVE NonEmptyFunPtrs(_)
\* every FunPtr node of t, at any depth, has at least one element
NonEmptyFunPtrs(t) ==
    /\ t.tag = "FunPtr" => t.args # <<>>
    /\ \A i \in 1..Len(t.args) : NonEmptyFunPtrs(t.args[i])

\* number of '(' minus number of ')' among the first k bytes of s
Depth(s, k) ==
    Cardinality({i \in 1..k : s[i] = "("}) - Cardinality({i \in 1..k : s[i] = ")"})

\* every parenthesis of s is matched
Balanced(s) ==
    /\ Depth(s, Len(s)) = 0
    /\ \A k \in 1..Len(s) : Depth(s, k) >= 0

IsSubstring(sub, s) ==
    \E i \in 0..(Len(s) - Len(sub)) : SubSeq(s, i + 1, i + Len(sub)) = sub

IsPrefix(a, b) == Len(a) <= Len(b) /\ SubSeq(b, 1, Len(a)) = a

IsSuffix(a, b) == Len(a) <= Len(b) /\ SubSeq(b, Len(b) - Len(a) + 1, Len(b)) = a

\* the positions of s at which "->" occurs at parenthesis depth exactly 0
TopArrows(s) ==
    {p \in 1..(Len(s) - 1) : s[p] = "-" /\ s[p + 1] = ">" /\ Depth(s, p - 1) = 0}

Min(S) == CHOOSE x \in S : \A y \in S : x <= y

RECURSIVE Segments(_, _, _)
\* the pieces of s from position start on, cut at the given arrow positions
Segments(s, start, arrows) ==
    IF arrows = {} THEN <<SubSeq(s, start, Len(s))>>
    ELSE LET p == Min(arrows) IN
         <<SubSeq(s, start, p - 1)>> \o Segments(s, p + 2, arrows \ {p})

\* the slices a split of s at its depth-0 arrows gives, left to right; a
\* last piece that is empty or all whitespace is not yielded
ExpectedSlices(s) ==
    LET segs == Segments(s, 1, TopArrows(s)) IN
    IF trim(segs[Len(segs)]) = <<>> THEN SubSeq(segs, 1, Len(segs) - 1) ELSE segs

\* the argument list of a text that starts with "FunPtr", as from_str's
\* FunPtr arm sees it: [some, val], none when the parenthesis is unmatched
FunPtrArgsOf(s) ==
    LET a == trim(SliceFrom(s, 6)) IN
    IF a # <<>> /\ a[1] = "(" THEN strip_suffix(SliceFrom(a, 1)) ELSE SomeStr(a)

(***************************************************************************)
(* C1  Round trip.                                                         *)
(***************************************************************************)
\* C1: for every HsType value ty that contains no CString and whose FunPtr
\* nodes all have at least one element, parsing the text Display renders for
\* ty succeeds and returns a value equal to ty.
C1_RoundTrip ==
    (Parsed /\ ty # NoType /\ ~HasCString(ty) /\ NonEmptyFunPtrs(ty))
        => result = Ok(ty)

\* a function pointer whose first element is a two-element function pointer
\* has been rendered and parsed back
C1_Witness ==
    /\ Parsed
    /\ ty.tag = "FunPtr"
    /\ Len(ty.args) >= 2
    /\ ty.args[1].tag = "FunPtr"
    /\ Len(ty.args[1].args) = 2
    /\ text = fmt(ty)
    /\ result = Ok(ty)

(***************************************************************************)
(* C2  parse never aborts.                                                 *)
(***************************************************************************)
\* C2: for every input text, from_str returns either a type or one of the
\* three errors UnsupportedHsType, UnmatchedParenthesis,
\* FunPtrWithoutTypeArgument; it never aborts the process.
C2_NeverAborts ==
    Parsed => \/ result.kind = "ok"
              \/ result.kind = "err" /\ result.err \in ErrorNames

(***************************************************************************)
(* C3  Parenthesis balance.                                                *)
(***************************************************************************)
\* C3 as stated: from_str on any text that contains an unmatched '(' or an
\* unmatched ')' returns the error UnmatchedParenthesis, whenever it returns
\* at all.
C3_UnmatchedAlwaysReported ==
    (Parsed /\ ~Balanced(text) /\ result.kind # "panic")
        => result = Err("UnmatchedParenthesis", <<>>)

\* C3 amended: from_str never returns a type for a text that contains an
\* unmatched '(' or ')'; and when the trimmed text starts with '(' and does
\* not end with ')', the error is UnmatchedParenthesis.
C3_UnmatchedNeverAccepted ==
    Parsed =>
        /\ ~Balanced(text) => result.kind # "ok"
        /\ LET s == trim(text) IN
           (s # <<>> /\ s[1] = "(" /\ s[Len(s)] # ")")
               => result = Err("UnmatchedParenthesis", <<>>)

\* an unmatched '(' in the middle of the text, found by a nested parse step
C3_Witness ==
    /\ Parsed
    /\ ~Balanced(text)
    /\ trim(text)[1] # "("
    /\ result = Err("UnmatchedParenthesis", <<>>)

(***************************************************************************)
(* C4  No empty function pointer.                                          *)
(***************************************************************************)
\* C4: every FunPtr node, at any depth, of a value from_str returns has at
\* least one element (so that quote's last().unwrap() cannot abort); a FunPtr
\* form whose argument list is empty or blank, bare or in parentheses, fails
\* with FunPtrWithoutTypeArgument.
C4_NoEmptyFunPtr ==
    /\ (Parsed /\ result.kind = "ok") => NonEmptyFunPtrs(result.val)
    /\ pc = "quoted" => tokens # QuotePanic
    /\ Parsed =>
         LET s == trim(text) IN
         (starts_with(s, FunPtrText)
            /\ FunPtrArgsOf(s).some /\ trim(FunPtrArgsOf(s).val) = <<>>)
             => result = Err("FunPtrWithoutTypeArgument", <<>>)

\* "FunPtr ()" has been parsed
C4_Witness ==
    /\ Parsed
    /\ text = Cat(<<FunPtrText, Sp, UnitText>>)
    /\ result = Err("FunPtrWithoutTypeArgument", <<>>)

(***************************************************************************)
(* C5  Grammar acceptance.                                                 *)
(***************************************************************************)
\* C5: for every text derived by the grammar, from_str succeeds and returns
\* the type the derivation denotes, the elements of an arrow list in order.
C5_GrammarAccepted ==
    (Parsed /\ deriv # NoType) => result = Ok(Denote(deriv))

(***************************************************************************)
(* C6  Unknown token rejection.                                            *)
(***************************************************************************)
\* C6: whenever from_str fails with UnsupportedHsType(t), t is a trimmed
\* contiguous piece of the input that is not "()", not a primitive name and
\* starts with none of "(", "IO", "Ptr", "FunPtr"; and "Foo" fails with
\* UnsupportedHsType("Foo").
C6_UnsupportedCarriesToken ==
    Parsed =>
        /\ (result.kind = "err" /\ result.err = "UnsupportedHsType") =>
             LET t == result.text IN
             /\ trim(t) = t
             /\ IsSubstring(t, text)
             /\ t # UnitText
             /\ \A tag \in PrimitiveTags : t # PrimitiveName(tag)
             /\ ~starts_with(t, LParen)
             /\ ~starts_with(t, IOText)
             /\ ~starts_with(t, PtrText)
             /\ ~starts_with(t, FunPtrText)
        /\ trim(text) = Foo => result = Err("UnsupportedHsType", Foo)

\* an unknown token inside a larger text has been rejected
C6_Witness ==
    /\ Parsed
    /\ result = Err("UnsupportedHsType", Foo)
    /\ Len(trim(text)) > Len(Foo)

(***************************************************************************)
(* C7  The scanner's split rule.                                           *)
(***************************************************************************)
\* C7: the slices ArrowIter yields over a text are, in left-to-right order,
\* the pieces between the occurrences of "->" at parenthesis depth exactly 0
\* (depth counted from the start of the text); an arrow at any other depth
\* stays inside a slice.  So "FunPtr (FunPtr(CInt -> CInt) -> CDouble)"
\* parses to a two-element FunPtr whose first element is a two-element FunPtr.
C7_SplitAtDepthZero ==
    /\ pc = "iter" =>
         /\ IsPrefix(yielded, ExpectedSlices(text))
         /\ (item.called /\ ~item.some) => yielded = ExpectedSlices(text)
    /\ (Parsed /\ text = NestedArrowText) =>
         result = Ok(FunPtr(<<FunPtr(<<Prim("CInt"), Prim("CInt")>>), Prim("CDouble")>>))

\* the scanner has finished "FunPtr(CInt -> CInt) -> CDouble" with two slices
C7_Witness ==
    /\ pc = "iter"
    /\ text = NestedArrowArgs
    /\ item.called
    /\ ~item.some
    /\ Len(yielded) = 2
    /\ Cardinality({p \in 1..(Len(text) - 1) : text[p] = "-" /\ text[p + 1] = ">"}) = 2

(***************************************************************************)
(* C8  The scanner's progress and permanent stop.                          *)
(***************************************************************************)
\* C8: the remaining text is always a suffix of the input; a call of next()
\* yields a slice exactly when the remaining text is not blank, the slice is
\* a prefix of the remaining text and the call strictly shortens the
\* remaining text to a suffix behind that slice; a call that returns None
\* leaves the remaining text unchanged, and after a None every call returns
\* None.
C8_ProgressAndStop ==
    [][(pc = "iter" /\ pc' = "iter") =>
          /\ IsSuffix(remaining', text)
          /\ item'.some <=> trim(remaining) # <<>>
          /\ item'.some =>
               /\ Len(remaining') < Len(remaining)
               /\ IsPrefix(item'.val, remaining)
               /\ IsSuffix(remaining', SliceFrom(remaining, Len(item'.val)))
          /\ ~item'.some => remaining' = remaining
          /\ (item.called /\ ~item.some) => ~item'.some]_vars

\* the scanner has stopped on a whitespace-only rest after yielding twice
C8_Witness ==
    /\ pc = "iter"
    /\ item.called
    /\ ~item.some
    /\ Len(yielded) >= 2
    /\ remaining # <<>>

(***************************************************************************)
(* C9  First-error propagation.                                            *)
(***************************************************************************)
\* the error of the leftmost element of elems that does not parse, if that
\* element's parse returns an error
LeftmostError(elems, r) ==
    LET bad == {i \in 1..Len(elems) : from_str(elems[i]).kind # "ok"} IN
    bad # {} =>
        LET first == from_str(elems[Min(bad)]) IN
        first.kind = "err" => r = first

\* C9: when the parse of the interior of a parenthesized group, of the
\* operand of IO or Ptr, or of an element of a FunPtr argument list returns
\* an error, from_str returns that same error and no type; of several invalid
\* elements of one argument list, the leftmost decides.
C9_FirstErrorPropagates ==
    Parsed =>
        LET s == trim(text) IN
        /\ result.kind = "err" => result.val = NoType
        /\ (starts_with(s, LParen) /\ s # UnitText /\ s[Len(s)] = ")") =>
             LET inner == from_str(SubSeq(s, 2, Len(s) - 1)) IN
             inner.kind = "err" => result = inner
        /\ starts_with(s, IOText) =>
             LET inner == from_str(SliceFrom(s, 2)) IN
             inner.kind = "err" => result = inner
        /\ starts_with(s, PtrText) =>
             LET inner == from_str(SliceFrom(s, 3)) IN
             inner.kind = "err" => result = inner
        /\ (starts_with(s, FunPtrText) /\ FunPtrArgsOf(s).some) =>
             LeftmostError(ExpectedSlices(FunPtrArgsOf(s).val), result)

\* an argument list with two invalid elements that fail differently has been
\* parsed, and the error is the first element's
C9_Witness ==
    /\ Parsed
    /\ starts_with(trim(text), FunPtrText)
    /\ FunPtrArgsOf(trim(text)).some
    /\ LET elems == ExpectedSlices(FunPtrArgsOf(trim(text)).val) IN
       /\ Len(elems) = 2
       /\ from_str(elems[1]).kind = "err"
       /\ from_str(elems[2]).kind = "err"
       /\ from_str(elems[1]) # from_str(elems[2])
       /\ result = from_str(elems[1])

(***************************************************************************)
(* C10  The CString sugar.                                                 *)
(***************************************************************************)
\* C10 as stated: no input text makes from_str return a type that is or
\* contains CString.
C10_NeverParsesCString ==
    (Parsed /\ result.kind = "ok") => ~HasCString(result.val)

\* C10 amended: from_str returns CString for the primitive name "CString",
\* and a type it returns contains CString only if the text contains that
\* name; quote projects CString to what it projects Ptr(CChar) to.
C10_CStringOnlyFromItsName ==
    /\ (Parsed /\ trim(text) = PrimitiveName("CString")) => result = Ok(Prim("CString"))
    /\ (Parsed /\ result.kind = "ok" /\ HasCString(result.val))
           => IsSubstring(PrimitiveName("CString"), text)
    /\ (pc = "quoted" /\ result.val = Prim("CString"))
           => tokens = <<"*", "const", "core::ffi::c_char">>

\* a type with CString inside has been parsed and projected
C10_Witness ==
    /\ pc = "quoted"
    /\ HasCString(result.val)
    /\ result.val.tag = "Ptr"
    /\ tokens = <<"*", "const", "*", "const", "core::ffi::c_char">>

====
